---- MODULE Spec2Model ----
(***************************************************************************)
(* win_mem: locating a process by executable name, enumerating its         *)
(* modules and reading / writing its memory through host handles.          *)
(*                                                                         *)
(* The host (tool-help snapshots, OpenProcess, Read/WriteProcessMemory,    *)
(* CloseHandle) is the environment; every library operation is one action  *)
(* that records, in `calls`, the host calls it made in order.              *)
(* Widths are scaled down: a DWORD has DwordBits bits, a pointer one more, *)
(* a fixed-width name field has BufLen code units.                         *)
(***************************************************************************)
EXTENDS Integers, Sequences, FiniteSets, TLC

VARIABLES
    procs,   \* host: the running processes, in enumeration order (szExeFile per entry; th32ProcessID = position)
    mods,    \* host: the module entries a module-scope snapshot yields, in enumeration order
    open,    \* host: open process handles, handle |-> identifier of the process it refers to
    mem,     \* host: memory of each process, identifier |-> (mapped address |-> cell)
    pv,      \* caller: the Process values it holds, one per variable (slot)
    res,     \* the last operation: its inputs and what it returned
    calls    \* the host calls the last operation made, in order

vars == <<procs, mods, open, mem, pv, res, calls>>

-----------------------------------------------------------------------------
(* Bounds of the model *)

DwordBits == 3      \* scaled width of DWORD (32 in the program)
BufLen == 2         \* scaled width of szExeFile / szModule (MAX_PATH, MAX_MODULE_NAME32 + 1)
MaxProcs == 2       \* at most this many entries in a process snapshot
MaxMods == 2        \* at most this many entries in a module snapshot
NumSlots == 2       \* Process values the caller can hold at once

(* Program and host constants *)

NULL == 0
INVALID_HANDLE_VALUE == -1
WFALSE == 0
WTRUE == 1
TSize == 2          \* size_of::<T>() of the transferred type, in cells

DwordMod == 2 ^ DwordBits
PtrMod == 2 * DwordMod          \* a host pointer is wider than a DWORD (64-bit build)

-----------------------------------------------------------------------------
(* Text: UTF-16 code units and decoded strings.                             *)
(* Units: 0 terminator, 1 and 2 ordinary characters, 3 a high surrogate,    *)
(* 4 a low surrogate.  Chars: 0, 1, 2 as themselves, 5 the supplementary    *)
(* character the pair <<3, 4>> encodes.                                     *)

Units == 0..4
IsHigh(u) == u = 3
IsLow(u) == u = 4

Tail2(s) == SubSeq(s, 3, Len(s))

DecErr == [ok |-> FALSE, s |-> <<>>]

RECURSIVE from_utf16(_)
from_utf16(u) ==
    IF u = <<>> THEN [ok |-> TRUE, s |-> <<>>]
    ELSE IF IsHigh(u[1]) /\ Len(u) >= 2 /\ IsLow(u[2])
         THEN LET r == from_utf16(Tail2(u))
              IN  IF r.ok THEN [ok |-> TRUE, s |-> <<5>> \o r.s] ELSE DecErr
    ELSE IF IsHigh(u[1]) \/ IsLow(u[1]) THEN DecErr
    ELSE LET r == from_utf16(Tail(u))
         IN  IF r.ok THEN [ok |-> TRUE, s |-> <<u[1]>> \o r.s] ELSE DecErr

\* Position of the first terminator, 0 when there is none
FirstNil(buf) ==
    IF \E i \in 1..Len(buf) : buf[i] = 0
    THEN CHOOSE i \in 1..Len(buf) : buf[i] = 0 /\ \A j \in 1..(i - 1) : buf[j] # 0
    ELSE 0

\* A decoding of the whole field, terminator and padding included
remove_nil_bytes_whole(c_style_str) == from_utf16(c_style_str)

remove_nil_bytes(c_style_str) ==
    LET k == FirstNil(c_style_str)
    IN  IF k # 0 THEN from_utf16(SubSeq(c_style_str, 1, k - 1)) ELSE from_utf16(c_style_str)

starts_with(s, p) == Len(p) <= Len(s) /\ SubSeq(s, 1, Len(p)) = p

-----------------------------------------------------------------------------
(* Host calls, as recorded in `calls` *)

Call(fn, h, arg, ret) == [fn |-> fn, h |-> h, arg |-> arg, ret |-> ret]

IsValidHandle(h) == h # NULL /\ h # INVALID_HANDLE_VALUE

\* A wrapper that forgets the call
close_h_never(handle) == <<>>

\* utils.rs: the guarded wrapper of CloseHandle; yields the host calls it makes
close_h(handle) ==
    IF handle # NULL /\ handle # INVALID_HANDLE_VALUE
    THEN <<Call("CloseHandle", handle, 0, 0)>>
    ELSE <<>>

\* lib.rs: the wrapper of the single-file revision
lib_close_h(handle) == <<Call("CloseHandle", handle, 0, 0)>>

-----------------------------------------------------------------------------
(* Values *)

Pids == 1..MaxProcs
Handles == 1..(NumSlots + 1)      \* NumSlots process handles and one snapshot handle can be open at once
Addrs == 0..(DwordMod - 1)
Mapped == {1, 2}                  \* the addresses mapped in every process
Cells == {0, 1}
TVals == [1..TSize -> Cells]      \* the values of the transferred type T
Zeroed == [k \in 1..TSize |-> 0]  \* zeroed::<T>()

NoProcess == [st |-> "none", name |-> <<>>, pid |-> 0, handle |-> NULL,
              released |-> FALSE, closes |-> 0]
NoModule == [name |-> <<>>, address |-> 0, len |-> 0]
NoRes == [op |-> "none", slot |-> 0, name |-> <<>>, addr |-> 0, buf |-> Zeroed,
          kind |-> "none", err |-> "", proc |-> NoProcess, module |-> NoModule, val |-> Zeroed,
          text |-> <<>>]

\* The host hands out the lowest handle value not in `used`: values are reused once
\* they are closed and no Process value of the caller carries them any more
FreeHandle(used) == CHOOSE h \in Handles : h \notin used /\ \A g \in Handles : g < h => g \in used

-----------------------------------------------------------------------------
(* Host primitives *)

ExeNames(entries) == [k \in 1..Len(entries) |-> entries[k].szExeFile]
ModNames(entries) == [k \in 1..Len(entries) |-> entries[k].szModule]

\* Number of leading cells of [address, address + TSize) that are mapped
LeadingMapped(address) ==
    IF \E k \in 1..TSize : (address + k - 1) \notin Mapped
    THEN (CHOOSE k \in 1..TSize : (address + k - 1) \notin Mapped
                                  /\ \A j \in 1..(k - 1) : (address + j - 1) \in Mapped) - 1
    ELSE TSize

\* ReadProcessMemory into a zeroed buffer: TRUE and the whole value, or FALSE and
\* whatever was copied before the first inaccessible cell
ReadProcessMemory(h, address) ==
    IF h \notin DOMAIN open
    THEN [ret |-> WFALSE, buf |-> Zeroed]
    ELSE LET n == LeadingMapped(address)
         IN  [ret |-> IF n = TSize THEN WTRUE ELSE WFALSE,
              buf |-> [k \in 1..TSize |-> IF k <= n THEN mem[open[h]][address + k - 1] ELSE 0]]

\* WriteProcessMemory: the whole range must be accessible, else nothing is written
WriteProcessMemory(h, address, buffer) ==
    IF h \in DOMAIN open /\ LeadingMapped(address) = TSize
    THEN [ret |-> WTRUE,
          mem |-> [mem EXCEPT ![open[h]] =
                      [a \in Mapped |-> IF a >= address /\ a < address + TSize
                                        THEN buffer[a - address + 1] ELSE @[a]]]]
    ELSE [ret |-> WFALSE, mem |-> mem]

-----------------------------------------------------------------------------
(* process.rs: enumeration *)

\* A loop that does not stop at a match: it runs to the end and keeps the last one
RECURSIVE ScanEntries_last(_, _, _, _, _)
ScanEntries_last(bufs, i, name, h, nextFn) ==
    LET d == remove_nil_bytes(bufs[i])
        here == d.ok /\ starts_with(d.s, name)
        rest == IF i < Len(bufs)
                THEN LET r == ScanEntries_last(bufs, i + 1, name, h, nextFn)
                     IN  [r EXCEPT !.calls = <<Call(nextFn, h, 0, WTRUE)>> \o r.calls]
                ELSE [idx |-> 0, name |-> <<>>, calls |-> <<Call(nextFn, h, 0, WFALSE)>>]
    IN  IF rest.idx = 0 /\ here THEN [rest EXCEPT !.idx = i, !.name = d.s] ELSE rest

\* A loop that requests the next entry before it looks at the one it has
RECURSIVE ScanEntries_advancing(_, _, _, _, _)
ScanEntries_advancing(bufs, i, name, h, nextFn) ==
    LET d == remove_nil_bytes(bufs[i])
        more == i < Len(bufs)
        adv == <<Call(nextFn, h, 0, IF more THEN WTRUE ELSE WFALSE)>>
    IN  IF d.ok /\ starts_with(d.s, name)
        THEN [idx |-> i, name |-> d.s, calls |-> adv]
        ELSE IF more
             THEN LET r == ScanEntries_advancing(bufs, i + 1, name, h, nextFn)
                  IN  [r EXCEPT !.calls = adv \o r.calls]
             ELSE [idx |-> 0, name |-> <<>>, calls |-> adv]

\* A loop that gives up at the first entry whose name does not decode
RECURSIVE ScanEntries_decode_or_fail(_, _, _, _, _)
ScanEntries_decode_or_fail(bufs, i, name, h, nextFn) ==
    LET d == remove_nil_bytes(bufs[i])
    IN  IF ~d.ok
        THEN [idx |-> 0, name |-> <<>>, calls |-> <<>>]
        ELSE IF starts_with(d.s, name)
        THEN [idx |-> i, name |-> d.s, calls |-> <<>>]
        ELSE IF i < Len(bufs)
             THEN LET r == ScanEntries_decode_or_fail(bufs, i + 1, name, h, nextFn)
                  IN  [r EXCEPT !.calls = <<Call(nextFn, h, 0, WTRUE)>> \o r.calls]
             ELSE [idx |-> 0, name |-> <<>>, calls |-> <<Call(nextFn, h, 0, WFALSE)>>]

\* The body of the do-while of find / find_module from the entry at position i on:
\* decode, compare, return on a match, otherwise request the next entry.
RECURSIVE ScanEntries(_, _, _, _, _)
ScanEntries(bufs, i, name, h, nextFn) ==
    LET d == remove_nil_bytes(bufs[i])
    IN  IF d.ok /\ starts_with(d.s, name)
        THEN [idx |-> i, name |-> d.s, calls |-> <<>>]
        ELSE IF i < Len(bufs)
             THEN LET r == ScanEntries(bufs, i + 1, name, h, nextFn)
                  IN  [r EXCEPT !.calls = <<Call(nextFn, h, 0, WTRUE)>> \o r.calls]
             ELSE [idx |-> 0, name |-> <<>>, calls |-> <<Call(nextFn, h, 0, WFALSE)>>]

\* A guard that tests for the sentinel only: on a null handle the host refuses the call
Enumerate_sentinel_only(bufs, name, h, firstFn, nextFn) ==
    IF h = NULL
    THEN [idx |-> 0, name |-> <<>>, calls |-> <<Call(firstFn, h, 0, WFALSE)>>]
    ELSE IF h # INVALID_HANDLE_VALUE
    THEN IF Len(bufs) > 0
         THEN LET r == ScanEntries(bufs, 1, name, h, nextFn)
              IN  [r EXCEPT !.calls = <<Call(firstFn, h, 0, WTRUE)>> \o r.calls]
         ELSE [idx |-> 0, name |-> <<>>, calls |-> <<Call(firstFn, h, 0, WFALSE)>>]
    ELSE [idx |-> 0, name |-> <<>>, calls |-> <<>>]

\* The guard of the loop: handle checks, then the request of the first entry
Enumerate(bufs, name, h, firstFn, nextFn) ==
    IF h # NULL /\ h # INVALID_HANDLE_VALUE
    THEN IF Len(bufs) > 0
         THEN LET r == ScanEntries(bufs, 1, name, h, nextFn)
              IN  [r EXCEPT !.calls = <<Call(firstFn, h, 0, WTRUE)>> \o r.calls]
         ELSE [idx |-> 0, name |-> <<>>, calls |-> <<Call(firstFn, h, 0, WFALSE)>>]
    ELSE [idx |-> 0, name |-> <<>>, calls |-> <<>>]

\* find with the snapshot released only on the path that falls out of the loop
find_leaks_on_match(name, sh, oh) ==
    LET snap == <<Call("CreateToolhelp32Snapshot", sh, 0, 0)>>
        e == Enumerate(ExeNames(procs), name, sh, "Process32FirstW", "Process32NextW")
    IN  IF e.idx # 0
        THEN LET pid == procs[e.idx].th32ProcessID
             IN  [kind |-> "Ok", err |-> "",
                  proc |-> [st |-> "live", name |-> e.name, pid |-> pid, handle |-> oh,
                            released |-> FALSE, closes |-> 0],
                  calls |-> snap \o e.calls \o <<Call("OpenProcess", oh, pid, 0)>>]
        ELSE [kind |-> "Err", err |-> "FindProcessError", proc |-> NoProcess,
              calls |-> snap \o e.calls \o close_h(sh)]

\* Process::find(name); sh is what CreateToolhelp32Snapshot returns, oh what OpenProcess
\* returns if it is called.  The snapshot is dropped on return.
find(name, sh, oh) ==
    LET snap == <<Call("CreateToolhelp32Snapshot", sh, 0, 0)>>
        e == Enumerate(ExeNames(procs), name, sh, "Process32FirstW", "Process32NextW")
    IN  IF e.idx # 0
        THEN LET pid == procs[e.idx].th32ProcessID
             IN  [kind |-> "Ok", err |-> "",
                  proc |-> [st |-> "live", name |-> e.name, pid |-> pid, handle |-> oh,
                            released |-> FALSE, closes |-> 0],
                  calls |-> snap \o e.calls \o <<Call("OpenProcess", oh, pid, 0)>> \o close_h(sh)]
        ELSE [kind |-> "Err", err |-> "FindProcessError", proc |-> NoProcess,
              calls |-> snap \o e.calls \o close_h(sh)]

\* find_module that takes an image of size 0 for no module
find_module_rejects_empty(self, name, sh) ==
    LET snap == <<Call("CreateToolhelp32Snapshot", sh, self.pid, 0)>>
        e == Enumerate(ModNames(mods), name, sh, "Module32FirstW", "Module32NextW")
    IN  IF e.idx # 0 /\ mods[e.idx].modBaseSize # 0
        THEN [kind |-> "Ok", err |-> "",
              module |-> [name |-> e.name,
                          address |-> mods[e.idx].modBaseAddr % DwordMod,
                          len |-> mods[e.idx].modBaseSize],
              calls |-> snap \o e.calls \o close_h(sh)]
        ELSE [kind |-> "Err", err |-> "FindModuleError", module |-> NoModule,
              calls |-> snap \o e.calls \o close_h(sh)]

\* Process::find_module(&self, name); sh is what CreateToolhelp32Snapshot returns
find_module(self, name, sh) ==
    LET snap == <<Call("CreateToolhelp32Snapshot", sh, self.pid, 0)>>
        e == Enumerate(ModNames(mods), name, sh, "Module32FirstW", "Module32NextW")
    IN  IF e.idx # 0
        THEN [kind |-> "Ok", err |-> "",
              module |-> [name |-> e.name,
                          address |-> mods[e.idx].modBaseAddr % DwordMod,
                          len |-> mods[e.idx].modBaseSize],
              calls |-> snap \o e.calls \o close_h(sh)]
        ELSE [kind |-> "Err", err |-> "FindModuleError", module |-> NoModule,
              calls |-> snap \o e.calls \o close_h(sh)]

\* lib.rs: Module::is_empty
is_empty(module) == module.len = 0

-----------------------------------------------------------------------------
(* lib.rs: the single-file revision of find, find_module and the drops.     *)
(* Names are decoded from the whole fixed-width field, terminators and      *)
(* padding included; the Process has no name; handles are closed unguarded. *)

RECURSIVE lib_ScanEntries(_, _, _, _, _)
lib_ScanEntries(bufs, i, name, h, nextFn) ==
    LET d == from_utf16(bufs[i])
    IN  IF d.ok /\ starts_with(d.s, name)
        THEN [idx |-> i, name |-> d.s, calls |-> <<>>]
        ELSE IF i < Len(bufs)
             THEN LET r == lib_ScanEntries(bufs, i + 1, name, h, nextFn)
                  IN  [r EXCEPT !.calls = <<Call(nextFn, h, 0, WTRUE)>> \o r.calls]
             ELSE [idx |-> 0, name |-> <<>>, calls |-> <<Call(nextFn, h, 0, WFALSE)>>]

lib_Enumerate(bufs, name, h, firstFn, nextFn) ==
    IF h # NULL /\ h # INVALID_HANDLE_VALUE
    THEN IF Len(bufs) > 0
         THEN LET r == lib_ScanEntries(bufs, 1, name, h, nextFn)
              IN  [r EXCEPT !.calls = <<Call(firstFn, h, 0, WTRUE)>> \o r.calls]
         ELSE [idx |-> 0, name |-> <<>>, calls |-> <<Call(firstFn, h, 0, WFALSE)>>]
    ELSE [idx |-> 0, name |-> <<>>, calls |-> <<>>]

lib_find(name, sh, oh) ==
    LET snap == <<Call("CreateToolhelp32Snapshot", sh, 0, 0)>>
        e == lib_Enumerate(ExeNames(procs), name, sh, "Process32FirstW", "Process32NextW")
    IN  IF e.idx # 0
        THEN LET pid == procs[e.idx].th32ProcessID
             IN  [kind |-> "Ok", err |-> "",
                  proc |-> [st |-> "live", name |-> <<>>, pid |-> pid, handle |-> oh,
                            released |-> FALSE, closes |-> 0],
                  calls |-> snap \o e.calls \o <<Call("OpenProcess", oh, pid, 0)>>
                            \o lib_close_h(sh)]
        ELSE [kind |-> "Err", err |-> "FindProcessError", proc |-> NoProcess,
              calls |-> snap \o e.calls \o lib_close_h(sh)]

lib_find_module(self, name, sh) ==
    LET snap == <<Call("CreateToolhelp32Snapshot", sh, self.pid, 0)>>
        e == lib_Enumerate(ModNames(mods), name, sh, "Module32FirstW", "Module32NextW")
    IN  IF e.idx # 0
        THEN [kind |-> "Ok", err |-> "",
              module |-> [name |-> e.name,
                          address |-> mods[e.idx].modBaseAddr % DwordMod,
                          len |-> mods[e.idx].modBaseSize],
              calls |-> snap \o e.calls \o lib_close_h(sh)]
        ELSE [kind |-> "Err", err |-> "FindModuleError", module |-> NoModule,
              calls |-> snap \o e.calls \o lib_close_h(sh)]

-----------------------------------------------------------------------------
(* process.rs: memory access.  Each yields kind / err / val, the memory after *)
(* the call and the host calls made.                                         *)

\* write_mem that hands the host the first cell of the buffer only
write_mem_first_cell(self, buffer, address) ==
    LET w == WriteProcessMemory(self.handle, address, [k \in 1..TSize |-> IF k = 1 THEN buffer[k] ELSE 0])
        c == <<Call("WriteProcessMemory", self.handle, address, w.ret)>>
    IN  IF w.ret = WTRUE
        THEN [kind |-> "Ok", err |-> "", val |-> Zeroed, mem |-> w.mem, calls |-> c]
        ELSE [kind |-> "Err", err |-> "WriteMemoryError", val |-> Zeroed, mem |-> w.mem, calls |-> c]

write_mem(self, buffer, address) ==
    LET w == WriteProcessMemory(self.handle, address, buffer)
        c == <<Call("WriteProcessMemory", self.handle, address, w.ret)>>
    IN  IF w.ret = WTRUE
        THEN [kind |-> "Ok", err |-> "", val |-> Zeroed, mem |-> w.mem, calls |-> c]
        ELSE [kind |-> "Err", err |-> "WriteMemoryError", val |-> Zeroed, mem |-> w.mem, calls |-> c]

\* read_mem that hands the buffer back whatever the host reported
read_mem_unchecked(self, address) ==
    LET r == ReadProcessMemory(self.handle, address)
        c == <<Call("ReadProcessMemory", self.handle, address, r.ret)>>
    IN  [kind |-> "Ok", err |-> "", val |-> r.buf, mem |-> mem, calls |-> c]

read_mem(self, address) ==
    LET r == ReadProcessMemory(self.handle, address)
        c == <<Call("ReadProcessMemory", self.handle, address, r.ret)>>
    IN  IF r.ret = WTRUE
        THEN [kind |-> "Ok", err |-> "", val |-> r.buf, mem |-> mem, calls |-> c]
        ELSE [kind |-> "Err", err |-> "ReadMemoryError", val |-> Zeroed, mem |-> mem, calls |-> c]

\* `module.address() + address` on DWORD: with overflow checks the addition panics
\* when it overflows, without them it wraps
Panicked(c) == [kind |-> "Panic", err |-> "", val |-> Zeroed, mem |-> mem, calls |-> c]

\* write_mem_relative that takes a module it did not find to be at base 0
write_mem_relative_unresolved(self, buffer, module_name, address, sh, overflow_checks) ==
    LET m == find_module(self, module_name, sh)
        sum == m.module.address + address
    IN  IF sum >= DwordMod /\ overflow_checks
        THEN Panicked(m.calls)
        ELSE LET w == write_mem(self, buffer, sum % DwordMod)
             IN  [w EXCEPT !.calls = m.calls \o w.calls]

write_mem_relative(self, buffer, module_name, address, sh, overflow_checks) ==
    LET m == find_module(self, module_name, sh)
    IN  IF m.kind = "Ok"
        THEN LET sum == m.module.address + address
             IN  IF sum >= DwordMod /\ overflow_checks
                 THEN Panicked(m.calls)
                 ELSE LET w == write_mem(self, buffer, sum % DwordMod)
                      IN  [w EXCEPT !.calls = m.calls \o w.calls]
        ELSE [kind |-> "Err", err |-> "WriteMemoryError", val |-> Zeroed, mem |-> mem,
              calls |-> m.calls]

\* read_mem_relative that enumerates but adds the offset to the base the module had when
\* the Process was found
read_mem_relative_cached(self, module_name, address, sh, overflow_checks) ==
    LET m == find_module(self, module_name, sh)
        cached == IF module_name = <<1>> THEN 1 ELSE DwordMod - 1
    IN  IF m.kind = "Ok"
        THEN LET sum == cached + address
             IN  IF sum >= DwordMod /\ overflow_checks
                 THEN Panicked(m.calls)
                 ELSE LET r == read_mem(self, sum % DwordMod)
                      IN  [r EXCEPT !.calls = m.calls \o r.calls]
        ELSE [kind |-> "Err", err |-> "ReadMemoryError", val |-> Zeroed, mem |-> mem,
              calls |-> m.calls]

read_mem_relative(self, module_name, address, sh, overflow_checks) ==
    LET m == find_module(self, module_name, sh)
    IN  IF m.kind = "Ok"
        THEN LET sum == m.module.address + address
             IN  IF sum >= DwordMod /\ overflow_checks
                 THEN Panicked(m.calls)
                 ELSE LET r == read_mem(self, sum % DwordMod)
                      IN  [r EXCEPT !.calls = m.calls \o r.calls]
        ELSE [kind |-> "Err", err |-> "ReadMemoryError", val |-> Zeroed, mem |-> mem,
              calls |-> m.calls]

-----------------------------------------------------------------------------
(* Inputs *)

Slots == 1..NumSlots
Names == {<<1>>, <<1, 2>>, <<2>>}          \* the names looked up
AddrIn == {1, 2}                           \* the absolute addresses passed
OffIn == {0, 1}                            \* the module-relative offsets passed
ValIn == {[k \in 1..TSize |-> 1]}          \* the values written

OpenHandles == DOMAIN open

\* What CreateToolhelp32Snapshot can return: a fresh handle, or on failure the sentinel
\* (or null, which the guards of find and find_module also provide for)
Held == {pv[i].handle : i \in 1..NumSlots}
SnapshotOutcomes == {FreeHandle(OpenHandles \cup Held), INVALID_HANDLE_VALUE, NULL}
\* What OpenProcess can return while the snapshot sh is open: a fresh handle, or null
OpenOutcomes(sh) == {FreeHandle(OpenHandles \cup Held \cup {sh}), NULL}

\* The builds to tell apart for a relative access: with and without overflow checks
\* when `module.address() + address` overflows, one (they behave alike) when it does not
Builds(self, module_name, address, sh) ==
    LET m == find_module(self, module_name, sh)
    IN  IF m.kind = "Ok" /\ m.module.address + address >= DwordMod THEN BOOLEAN ELSE {TRUE}

\* The handles passed to CloseHandle in a sequence of host calls
Closed(c) == {c[k].h : k \in {j \in 1..Len(c) : c[j].fn = "CloseHandle"}}

\* The open process handles once the host has served the calls c
OpenAfter(c) == [h \in OpenHandles \ Closed(c) |-> open[h]]

-----------------------------------------------------------------------------
(* Actions *)

Find(i, name) ==
    /\ pv[i].st = "none"
    /\ \E sh \in SnapshotOutcomes : \E oh \in OpenOutcomes(sh) :
         LET r == find(name, sh, oh)
         IN  /\ calls' = r.calls
             /\ res' = [NoRes EXCEPT !.op = "find", !.slot = i, !.name = name,
                                     !.kind = r.kind, !.err = r.err, !.proc = r.proc]
             /\ pv' = IF r.kind = "Ok" THEN [pv EXCEPT ![i] = r.proc] ELSE pv
             /\ open' = IF r.kind = "Ok" /\ r.proc.handle # NULL
                        THEN [h \in (OpenHandles \ Closed(r.calls)) \cup {r.proc.handle} |->
                                 IF h = r.proc.handle THEN r.proc.pid ELSE open[h]]
                        ELSE OpenAfter(r.calls)
    /\ UNCHANGED <<procs, mods, mem>>

FindModule(i, name) ==
    /\ pv[i].st = "live"
    /\ \E sh \in SnapshotOutcomes :
         LET r == find_module(pv[i], name, sh)
         IN  /\ calls' = r.calls
             /\ res' = [NoRes EXCEPT !.op = "find_module", !.slot = i, !.name = name,
                                     !.kind = r.kind, !.err = r.err, !.module = r.module]
             /\ open' = OpenAfter(r.calls)
    /\ UNCHANGED <<procs, mods, mem, pv>>

WriteMem(i, buffer, address) ==
    /\ pv[i].st = "live"
    /\ LET r == write_mem(pv[i], buffer, address)
       IN  /\ calls' = r.calls
           /\ mem' = r.mem
           /\ res' = [NoRes EXCEPT !.op = "write_mem", !.slot = i, !.addr = address,
                                   !.buf = buffer, !.kind = r.kind, !.err = r.err]
           /\ open' = OpenAfter(r.calls)
    /\ UNCHANGED <<procs, mods, pv>>

ReadMem(i, address) ==
    /\ pv[i].st = "live"
    /\ LET r == read_mem(pv[i], address)
       IN  /\ calls' = r.calls
           /\ res' = [NoRes EXCEPT !.op = "read_mem", !.slot = i, !.addr = address,
                                   !.kind = r.kind, !.err = r.err, !.val = r.val]
           /\ open' = OpenAfter(r.calls)
    /\ UNCHANGED <<procs, mods, mem, pv>>

WriteMemRelative(i, buffer, module_name, address) ==
    /\ pv[i].st = "live"
    /\ \E sh \in SnapshotOutcomes : \E oc \in Builds(pv[i], module_name, address, sh) :
         LET r == write_mem_relative(pv[i], buffer, module_name, address, sh, oc)
         IN  /\ calls' = r.calls
             /\ mem' = r.mem
             /\ res' = [NoRes EXCEPT !.op = "write_mem_relative", !.slot = i,
                                     !.name = module_name, !.addr = address, !.buf = buffer,
                                     !.kind = r.kind, !.err = r.err]
             /\ open' = OpenAfter(r.calls)
    /\ UNCHANGED <<procs, mods, pv>>

ReadMemRelative(i, module_name, address) ==
    /\ pv[i].st = "live"
    /\ \E sh \in SnapshotOutcomes : \E oc \in Builds(pv[i], module_name, address, sh) :
         LET r == read_mem_relative(pv[i], module_name, address, sh, oc)
         IN  /\ calls' = r.calls
             /\ res' = [NoRes EXCEPT !.op = "read_mem_relative", !.slot = i,
                                     !.name = module_name, !.addr = address,
                                     !.kind = r.kind, !.err = r.err, !.val = r.val]
             /\ open' = OpenAfter(r.calls)
    /\ UNCHANGED <<procs, mods, mem, pv>>

\* The caller closes the raw handle that Process::handle() exposes
Release(i) ==
    /\ pv[i].st = "live"
    /\ pv[i].handle # NULL
    /\ ~pv[i].released
    /\ calls' = <<Call("CloseHandle", pv[i].handle, 0, 0)>>
    /\ pv' = [pv EXCEPT ![i].released = TRUE, ![i].closes = @ + 1]
    /\ open' = [h \in OpenHandles \ {pv[i].handle} |-> open[h]]
    /\ res' = [NoRes EXCEPT !.op = "release", !.slot = i]
    /\ UNCHANGED <<procs, mods, mem>>

\* Drop for Process: the value goes out of scope; res.proc is the value dropped
Drop(i) ==
    /\ pv[i].st = "live"
    /\ LET c == close_h(pv[i].handle)
       IN  /\ calls' = c
           /\ pv' = [pv EXCEPT ![i] = NoProcess]
           /\ open' = OpenAfter(c)
    /\ res' = [NoRes EXCEPT !.op = "drop", !.slot = i, !.proc = pv[i]]
    /\ UNCHANGED <<procs, mods, mem>>

-----------------------------------------------------------------------------
(* Actions of the single-file revision (lib.rs) *)

LibFind(i, name) ==
    /\ pv[i].st = "none"
    /\ \E sh \in SnapshotOutcomes : \E oh \in OpenOutcomes(sh) :
         LET r == lib_find(name, sh, oh)
         IN  /\ calls' = r.calls
             /\ res' = [NoRes EXCEPT !.op = "find", !.slot = i, !.name = name,
                                     !.kind = r.kind, !.err = r.err, !.proc = r.proc]
             /\ pv' = IF r.kind = "Ok" THEN [pv EXCEPT ![i] = r.proc] ELSE pv
             /\ open' = IF r.kind = "Ok" /\ r.proc.handle # NULL
                        THEN [h \in (OpenHandles \ Closed(r.calls)) \cup {r.proc.handle} |->
                                 IF h = r.proc.handle THEN r.proc.pid ELSE open[h]]
                        ELSE OpenAfter(r.calls)
    /\ UNCHANGED <<procs, mods, mem>>

LibFindModule(i, name) ==
    /\ pv[i].st = "live"
    /\ \E sh \in SnapshotOutcomes :
         LET r == lib_find_module(pv[i], name, sh)
         IN  /\ calls' = r.calls
             /\ res' = [NoRes EXCEPT !.op = "find_module", !.slot = i, !.name = name,
                                     !.kind = r.kind, !.err = r.err, !.module = r.module]
             /\ open' = OpenAfter(r.calls)
    /\ UNCHANGED <<procs, mods, mem, pv>>

LibDrop(i) ==
    /\ pv[i].st = "live"
    /\ LET c == lib_close_h(pv[i].handle)
       IN  /\ calls' = c
           /\ pv' = [pv EXCEPT ![i] = NoProcess]
           /\ open' = OpenAfter(c)
    /\ res' = [NoRes EXCEPT !.op = "drop", !.slot = i, !.proc = pv[i]]
    /\ UNCHANGED <<procs, mods, mem>>

-----------------------------------------------------------------------------
(* Initial states: what the host holds when the program starts *)

\* A name, terminated and padded to the width of the field (cut if too long)
Pad(s) == [k \in 1..BufLen |-> IF k <= Len(s) THEN s[k] ELSE 0]

\* Entries get distinct identifiers: the k-th of n entries is process n + 1 - k
ProcEntries(bufs) ==
    [k \in 1..Len(bufs) |-> [th32ProcessID |-> Len(bufs) + 1 - k, szExeFile |-> bufs[k]]]

SeqsUpTo(S, n) == UNION {[1..k -> S] : k \in 0..n}

ModEntry(s, base, size) == [szModule |-> Pad(s), modBaseAddr |-> base, modBaseSize |-> size]

\* The host of the life-cycle runs: the process sought comes after one whose name does
\* not decode; it has an empty module at base 1 and one at the top of the DWORD range
TheProcs == ProcEntries(<<Pad(<<3>>), Pad(<<1, 2>>)>>)
TheMods == <<ModEntry(<<1>>, 1, 0), ModEntry(<<1, 2>>, DwordMod - 1, 1)>>

\* Module lists of the enumeration runs over process lists: none, the one above, one
\* with an undecodable name first and a base above the DWORD range
SomeModLists ==
    {<<>>, TheMods, <<ModEntry(<<3>>, 2, 1), ModEntry(<<1, 2>>, DwordMod + 1, 1)>>}

InitCaller ==
    /\ open = <<>>
    /\ mem = [p \in Pids |-> [a \in Mapped |-> 0]]
    /\ pv = [i \in Slots |-> NoProcess]
    /\ res = NoRes
    /\ calls = <<>>

\* The modules the life-cycle runs access: one that is found and one that is not
LifeNames == {<<1>>, <<2>>}

Init ==
    /\ procs = TheProcs
    /\ mods = TheMods
    /\ InitCaller

Next ==
    \/ \E i \in Slots, name \in Names : Find(i, name)
    \/ \E i \in Slots, name \in Names : FindModule(i, name)
    \/ \E i \in Slots, b \in ValIn, a \in AddrIn : WriteMem(i, b, a)
    \/ \E i \in Slots, a \in AddrIn : ReadMem(i, a)
    \/ \E i \in Slots, b \in ValIn, name \in LifeNames : WriteMemRelative(i, b, name, 0)
    \/ \E i \in Slots, name \in LifeNames : ReadMemRelative(i, name, 0)
    \/ \E i \in Slots : Release(i)
    \/ \E i \in Slots : Drop(i)

Spec == Init /\ [][Next]_vars

\* Name fields of the enumeration runs: short names with and without a common prefix,
\* the empty name, undecodable content, a surrogate pair, a field with no terminator,
\* and content after the terminator that does not decode
NoTerminator == [k \in 1..BufLen |-> 1]
AfterTerminator(s) == [k \in 1..BufLen |-> IF k <= Len(s) THEN s[k] ELSE IF k = Len(s) + 1 THEN 0 ELSE 3]
EnumBufs ==
    {Pad(<<>>), Pad(<<1>>), Pad(<<2>>), Pad(<<1, 2>>), Pad(<<2, 1>>), Pad(<<3>>), Pad(<<1, 4>>),
     Pad(<<3, 4>>), NoTerminator, AfterTerminator(<<>>), AfterTerminator(<<1>>)}
ModBufs == {Pad(<<1>>), Pad(<<1, 2>>), Pad(<<2>>), Pad(<<3>>), NoTerminator, AfterTerminator(<<1>>)}

AllProcLists == {ProcEntries(b) : b \in SeqsUpTo(EnumBufs, MaxProcs)}
AllModEntries ==
    {[szModule |-> b, modBaseAddr |-> a[1], modBaseSize |-> a[2]] :
        b \in ModBufs, a \in {<<1, 0>>, <<2, 1>>, <<DwordMod + 3, 1>>}}
AllModLists == SeqsUpTo(AllModEntries, MaxMods)

\* Enumeration over the host lists within the bounds: one Process value, looked up,
\* searched for modules and dropped
InitProcs ==
    /\ procs \in AllProcLists
    /\ mods \in SomeModLists
    /\ InitCaller

InitMods ==
    /\ procs = TheProcs
    /\ mods \in AllModLists
    /\ InitCaller

EnumNext ==
    \/ \E name \in Names : Find(1, name)
    \/ \E name \in Names : FindModule(1, name)
    \/ Drop(1)

SpecProcs == InitProcs /\ [][EnumNext]_vars
SpecMods == InitMods /\ [][EnumNext]_vars

\* The single-file revision (lib.rs) over the same process lists
LibNext ==
    \/ \E name \in Names : LibFind(1, name)
    \/ \E name \in Names : LibFindModule(1, name)
    \/ LibDrop(1)

SpecLib == InitProcs /\ [][LibNext]_vars

-----------------------------------------------------------------------------
(* utils.rs: remove_nil_bytes on its own, over every content of a name field *)

\* The widths it is instantiated at: that of szModule and that of szExeFile
Widths == {BufLen, BufLen + 1}
TextBufs == UNION {[1..w -> Units] : w \in Widths}

InitText ==
    /\ procs \in {ProcEntries(<<b>>) : b \in TextBufs}
    /\ mods = <<>>
    /\ InitCaller

\* remove_nil_bytes(&p_entry.szExeFile) for the entry the host holds
RemoveNilBytes ==
    /\ LET d == remove_nil_bytes(procs[1].szExeFile)
       IN  res' = [NoRes EXCEPT !.op = "remove_nil_bytes",
                                !.kind = IF d.ok THEN "Ok" ELSE "Err",
                                !.err = IF d.ok THEN "" ELSE "FromUtf16Error",
                                !.text = d.s]
    /\ calls' = <<>>
    /\ UNCHANGED <<procs, mods, open, mem, pv>>

SpecText == InitText /\ [][RemoveNilBytes]_vars

-----------------------------------------------------------------------------
(* Vocabulary of the properties *)

HasPrefix(s, p) == Len(p) <= Len(s) /\ \A k \in 1..Len(p) : s[k] = p[k]

RelOps == {"read_mem_relative", "write_mem_relative"}
SlotOps == {"find_module", "read_mem", "write_mem"} \cup RelOps

CallsOf(fns) == {k \in 1..Len(calls) : calls[k].fn \in fns}
CloseCount(h) == Cardinality({k \in CallsOf({"CloseHandle"}) : calls[k].h = h})
Transfers == CallsOf({"ReadProcessMemory", "WriteProcessMemory"})

\* The operation started by taking a snapshot, and which handle it got
TookSnapshot == Len(calls) > 0 /\ calls[1].fn = "CreateToolhelp32Snapshot"
SnapshotHandle == calls[1].h

\* The entries of the host lists whose decoded name starts with `name`
ProcMatches(name) ==
    {k \in 1..Len(procs) : LET d == remove_nil_bytes(procs[k].szExeFile)
                           IN  d.ok /\ HasPrefix(d.s, name)}
ModMatches(name) ==
    {k \in 1..Len(mods) : LET d == remove_nil_bytes(mods[k].szModule)
                          IN  d.ok /\ HasPrefix(d.s, name)}
First(S) == CHOOSE k \in S : \A j \in S : k <= j

\* The module lookup inside the last (relative) operation failed
LookupFailed == TookSnapshot /\ (~IsValidHandle(SnapshotHandle) \/ ModMatches(res.name) = {})

Usable(p) == p.st = "live" /\ ~p.released /\ IsValidHandle(p.handle)

-----------------------------------------------------------------------------
(* Memory access on one Process while the host reloads modules *)

BaseIn == {1, 2, DwordMod - 1}             \* the bases a module is reloaded at

\* The host unloads the k-th module of the target and loads it again at another base.
\* The reloads followed are those that come after a relative access.
Reload(k, base) ==
    /\ res.op \in RelOps
    /\ k \in 1..Len(mods)
    /\ mods[k].modBaseAddr # base
    /\ mods' = [mods EXCEPT ![k].modBaseAddr = base]
    /\ res' = [NoRes EXCEPT !.op = "reload"]
    /\ calls' = <<>>
    /\ UNCHANGED <<procs, open, mem, pv>>

AccessNext ==
    \/ \E name \in Names : Find(1, name)
    \/ \E b \in TVals, a \in AddrIn : WriteMem(1, b, a)
    \/ \E a \in AddrIn : ReadMem(1, a)
    \/ \E b \in ValIn, name \in Names, a \in OffIn : WriteMemRelative(1, b, name, a)
    \/ \E name \in Names, a \in OffIn : ReadMemRelative(1, name, a)
    \/ \E k \in 1..MaxMods, base \in BaseIn : Reload(k, base)
    \/ Drop(1)

SpecAccess == Init /\ [][AccessNext]_vars

-----------------------------------------------------------------------------
(* Properties *)

\* C1: a relative read or write whose module lookup fails returns the
\* module-not-found kind (FindModuleError), not a read-failed or write-failed one.
C1_ModuleNotFoundPropagated ==
    (res.op \in RelOps /\ LookupFailed) => (res.kind = "Err" /\ res.err = "FindModuleError")

\* C2: every Process that find returns as success holds a valid open handle,
\* whatever OpenProcess returned for the matched identifier.
C2_FindReturnsOpenHandle ==
    (res.op = "find" /\ res.kind = "Ok") =>
        (IsValidHandle(res.proc.handle) /\ res.proc.handle \in DOMAIN open)

\* C3: CloseHandle is never called with null or with INVALID_HANDLE_VALUE, also when
\* the snapshot could not be created or the process could not be opened.
C3_CloseNeverNullOrSentinel ==
    \A k \in CallsOf({"CloseHandle"}) : calls[k].h \notin {NULL, INVALID_HANDLE_VALUE}

\* C4: the snapshot handle a find or find_module call acquires is closed exactly once
\* before the call returns, after its last use, on every exit path.
C4_SnapshotClosedOnce ==
    (res.op \in {"find", "find_module"} /\ TookSnapshot /\ IsValidHandle(SnapshotHandle)) =>
        /\ CloseCount(SnapshotHandle) = 1
        /\ calls[Len(calls)] = Call("CloseHandle", SnapshotHandle, 0, 0)
        /\ SnapshotHandle \notin DOMAIN open

C4_Witness ==
    /\ res.op = "find" /\ res.kind = "Ok"
    /\ IsValidHandle(SnapshotHandle)
    /\ CloseCount(SnapshotHandle) = 1

\* C5: a Process found with a valid handle keeps that handle open and untouched through
\* find_module, reads, writes and relative accesses, and its drop closes it exactly once.
C5_HandleClosedOnceAtDrop ==
    /\ \A i \in Slots : Usable(pv[i]) =>
          /\ pv[i].handle \in DOMAIN open
          /\ open[pv[i].handle] = pv[i].pid
          /\ pv[i].closes = 0
    /\ (res.op \in SlotOps /\ Usable(pv[res.slot])) => CloseCount(pv[res.slot].handle) = 0
    /\ (res.op = "drop" /\ Usable(res.proc)) =>
          /\ calls = <<Call("CloseHandle", res.proc.handle, 0, 0)>>
          /\ res.proc.handle \notin DOMAIN open

C5_Witness ==
    /\ res.op = "drop" /\ Usable(res.proc)
    /\ CloseCount(res.proc.handle) = 1

\* C6: a handle released through the raw handle and then dropped with its owner is
\* passed to CloseHandle at most once in total.
C6_AtMostOneClose ==
    res.op = "drop" => res.proc.closes + CloseCount(res.proc.handle) <= 1

\* C7: two Process values found under the same name each own a handle of their own,
\* both open; dropping one leaves the other's open.
C7_IndependentHandles ==
    \A i, j \in Slots :
        (i # j /\ pv[i].st = "live" /\ pv[j].st = "live"
         /\ ~pv[i].released /\ ~pv[j].released /\ pv[i].pid = pv[j].pid) =>
            /\ IsValidHandle(pv[i].handle) /\ IsValidHandle(pv[j].handle)
            /\ pv[i].handle # pv[j].handle
            /\ {pv[i].handle, pv[j].handle} \subseteq DOMAIN open

\* C8: a successful find returns a Process whose name starts with the name asked for
\* and whose identifier is that of the first entry, in enumeration order, whose decoded
\* name starts with it; with no such entry find returns FindProcessError.
C8_FindFirstMatch ==
    res.op = "find" =>
        /\ res.kind = "Ok" =>
              /\ ProcMatches(res.name) # {}
              /\ HasPrefix(res.proc.name, res.name)
              /\ res.proc.pid = procs[First(ProcMatches(res.name))].th32ProcessID
        /\ ProcMatches(res.name) = {} => (res.kind = "Err" /\ res.err = "FindProcessError")

\* several entries match and find succeeded
C8_Witness ==
    /\ res.op = "find" /\ res.kind = "Ok"
    /\ Cardinality(ProcMatches(res.name)) >= 2

\* What find_module is to return for the first matching entry, given how the base
\* address is carried
ModuleOf(e, address) ==
    [name |-> remove_nil_bytes(e.szModule).s, address |-> address, len |-> e.modBaseSize]

FindModuleReturns(Address(_)) ==
    res.op = "find_module" =>
        /\ ModMatches(res.name) = {} => (res.kind = "Err" /\ res.err = "FindModuleError")
        /\ res.kind = "Ok" =>
              /\ ModMatches(res.name) # {}
              /\ LET e == mods[First(ModMatches(res.name))]
                 IN  /\ res.module = ModuleOf(e, Address(e))
                     /\ is_empty(res.module) <=> e.modBaseSize = 0
        /\ (IsValidHandle(SnapshotHandle) /\ ModMatches(res.name) # {}) => res.kind = "Ok"

EntryBase(e) == e.modBaseAddr
EntryBaseAsDword(e) == e.modBaseAddr % DwordMod

\* C9 as stated: find_module returns FindModuleError when no entry's decoded name starts
\* with the name, else a Module with the name, the base address and the size of the first
\* matching entry; a matching entry of size 0 is a success with is_empty true.
C9_ModuleOfFirstMatch == FindModuleReturns(EntryBase)

\* C9 as amended: the same, the base address being the entry's base address reduced to
\* the DWORD address type (modBaseAddr as DWORD).
C9_ModuleOfFirstMatchAsDword == FindModuleReturns(EntryBaseAsDword)

\* the first matching entry has size 0 and is returned
C9_Witness ==
    /\ res.op = "find_module" /\ res.kind = "Ok"
    /\ is_empty(res.module)
    /\ First(ModMatches(res.name)) > 1

\* C10: read_mem returns a value, and write_mem Ok, exactly when the host reported the
\* whole transfer done; otherwise ReadMemoryError / WriteMemoryError and no value.
C10_AllOrNothing ==
    /\ res.op = "read_mem" =>
          /\ Len(calls) = 1 /\ Transfers = {1}
          /\ res.kind = "Ok" <=> calls[1].ret = WTRUE
          /\ res.kind = "Ok" =>
                res.val = [k \in 1..TSize |-> mem[pv[res.slot].pid][res.addr + k - 1]]
          /\ res.kind # "Ok" =>
                res.kind = "Err" /\ res.err = "ReadMemoryError" /\ res.val = Zeroed
    /\ res.op = "write_mem" =>
          /\ Len(calls) = 1 /\ Transfers = {1}
          /\ res.kind = "Ok" <=> calls[1].ret = WTRUE
          /\ res.kind # "Ok" => res.kind = "Err" /\ res.err = "WriteMemoryError"
    /\ (res.op \in RelOps /\ res.kind = "Ok") =>
          /\ Transfers # {}
          /\ \A k \in Transfers : calls[k].ret = WTRUE

\* a read that the host stopped half way: the first cell was copied, nothing is returned
C10_Witness ==
    /\ res.op = "read_mem" /\ res.kind = "Err"
    /\ Usable(pv[res.slot])
    /\ res.addr \in Mapped
    /\ mem[pv[res.slot].pid][res.addr] = 1

\* The host calls an enumeration of modules and the release of its snapshot consist of
LookupCalls == {"CreateToolhelp32Snapshot", "Module32FirstW", "Module32NextW", "CloseHandle"}

\* What a relative access whose lookup failed has done
OnlyLookedUp ==
    /\ Transfers = {}
    /\ \A k \in 1..Len(calls) :
          /\ calls[k].fn \in LookupCalls
          /\ calls[k].fn = "CloseHandle" => calls[k].h = SnapshotHandle

\* C11: when the module lookup inside read_mem_relative or write_mem_relative fails, no
\* transfer primitive is called, the only host calls are those of the enumeration and the
\* release of the snapshot, and the memory of the target is as it was before the call.
C11_NoTransferOnLookupFailure ==
    /\ []((res.op \in RelOps /\ LookupFailed) => OnlyLookedUp)
    /\ [][(res'.op \in RelOps /\ LookupFailed') => mem' = mem]_vars

\* a relative write to a module that is not in the list, on a target written to before
C11_Witness ==
    /\ res.op = "write_mem_relative" /\ LookupFailed
    /\ IsValidHandle(SnapshotHandle)
    /\ Usable(pv[res.slot])
    /\ \E a \in Mapped : mem[pv[res.slot].pid][a] # 0

\* C12: with the module list and the memory as they are, read_mem_relative(module, offset)
\* returns what find_module(module) followed by read_mem(module.address + offset) returns,
\* for every module name and offset: the error of find_module where it fails, else the
\* result of read_mem.  The sum of the two calls is the caller's, computed in DWORD as the
\* library computes it (it aborts where the library's aborts).
C12_RelativeReadIsFindThenRead ==
    res.op = "read_mem_relative" =>
        LET self == pv[res.slot]
            m == find_module(self, res.name, SnapshotHandle)
            sum == m.module.address + res.addr
            r == read_mem(self, sum % DwordMod)
        IN  IF m.kind = "Ok"
            THEN /\ res.kind = "Panic" => sum >= DwordMod
                 /\ res.kind # "Panic" => (res.kind = r.kind /\ res.err = r.err /\ res.val = r.val)
            ELSE res.kind = m.kind /\ res.err = m.err

\* C13: a write_mem(v, address) that succeeds, followed immediately by a read_mem of the
\* same type at the same address on the same Process, reads a value equal to v.
C13_WriteThenReadRoundTrip ==
    [][(res.op = "write_mem" /\ res.kind = "Ok"
        /\ res'.op = "read_mem" /\ res'.slot = res.slot /\ res'.addr = res.addr)
       => (res'.kind = "Ok" /\ res'.val = res.buf)]_vars

\* a read that returned a value with cells that differ, as only a write can have left it
C13_Witness ==
    /\ res.op = "read_mem" /\ res.kind = "Ok"
    /\ res.val[1] # res.val[TSize]

\* The positions of the terminators of a field, and the code units before position k
Nils(buf) == {i \in 1..Len(buf) : buf[i] = 0}
UnitsBefore(buf, k) == [j \in 1..(k - 1) |-> buf[j]]
Returned == [ok |-> res.kind = "Ok", s |-> res.text]

\* C14: remove_nil_bytes on a fixed-width field returns the decoding of exactly the code
\* units before the first terminator when there is one (no terminator in the result), and
\* the decoding of the whole field when there is none.
C14_DecodesUpToFirstTerminator ==
    res.op = "remove_nil_bytes" =>
        LET buf == procs[1].szExeFile
        IN  /\ Nils(buf) # {} => Returned = from_utf16(UnitsBefore(buf, First(Nils(buf))))
            /\ Nils(buf) = {} => Returned = from_utf16(buf)
            /\ \A i \in 1..Len(res.text) : res.text[i] # 0

\* a field with text, a terminator and more text after it
C14_Witness ==
    /\ res.op = "remove_nil_bytes" /\ res.kind = "Ok"
    /\ LET buf == procs[1].szExeFile
       IN  /\ Nils(buf) # {} /\ First(Nils(buf)) > 1
           /\ buf[Len(buf)] # 0

\* The address a relative access of the last operation's module and offset is to use:
\* the base the module list holds now, plus the offset, in DWORD
CurrentBase == EntryBaseAsDword(mods[First(ModMatches(res.name))])
CurrentTarget == (CurrentBase + res.addr) % DwordMod

\* C15: every read_mem_relative and write_mem_relative call takes one module snapshot of
\* its own and transfers at the base that enumeration reports: after a module was reloaded
\* at another base, the next relative call uses the new base, never an earlier one.
C15_FreshEnumerationEachCall ==
    res.op \in RelOps =>
        /\ CallsOf({"CreateToolhelp32Snapshot"}) = {1}
        /\ calls[1].arg = pv[res.slot].pid
        /\ \A k \in Transfers : ModMatches(res.name) # {} /\ calls[k].arg = CurrentTarget

\* a relative access that transferred at a base other than the one the module had before
\* the reload that followed an earlier relative access
C15_Witness ==
    /\ res.op \in RelOps /\ res.kind = "Ok"
    /\ Transfers # {}
    /\ CurrentBase # EntryBaseAsDword(TheMods[First(ModMatches(res.name))])

\* The enumeration calls among the host calls of the last operation
EnumFns == {"Process32FirstW", "Process32NextW", "Module32FirstW", "Module32NextW"}
EnumCalls == CallsOf(EnumFns)
NotFoundError == IF res.op = "find" THEN "FindProcessError" ELSE "FindModuleError"

\* C16: in find and find_module, when the snapshot handle is null or the sentinel, no
\* first or next call is issued and the operation returns its not-found error.
C16_InvalidSnapshotNoEnumeration ==
    (res.op \in {"find", "find_module"} /\ ~IsValidHandle(SnapshotHandle)) =>
        /\ EnumCalls = {}
        /\ res.kind = "Err" /\ res.err = NotFoundError

\* a null snapshot handle while an entry of the list matches the name
C16_Witness ==
    /\ res.op = "find" /\ TookSnapshot /\ SnapshotHandle = NULL
    /\ ProcMatches(res.name) # {}

\* The list the last find / find_module enumerated, its entries that match, and the
\* enumeration functions of its scope
Matches == IF res.op = "find" THEN ProcMatches(res.name) ELSE ModMatches(res.name)
Listed == IF res.op = "find" THEN Len(procs) ELSE Len(mods)
FirstFn == IF res.op = "find" THEN "Process32FirstW" ELSE "Module32FirstW"
NextFn == IF res.op = "find" THEN "Process32NextW" ELSE "Module32NextW"

\* The number of entries requested: up to the first match, or one past the end of the list
Requested == IF Matches # {} THEN First(Matches) ELSE Listed + 1

\* C17: within one find or find_module call on a valid snapshot, first is requested once,
\* before any next, all on that snapshot; next only follows a successful request whose
\* entry did not match; nothing is requested after a failed request or after a match.
C17_FirstNextProtocol ==
    (res.op \in {"find", "find_module"} /\ IsValidHandle(SnapshotHandle)) =>
        /\ EnumCalls = 2..(Requested + 1)
        /\ \A k \in EnumCalls :
              /\ calls[k].h = SnapshotHandle
              /\ calls[k].fn = IF k = 2 THEN FirstFn ELSE NextFn
              /\ k > 2 => (calls[k - 1].ret = WTRUE /\ (k - 2) \notin Matches)
              /\ calls[k].ret = IF k - 1 <= Listed THEN WTRUE ELSE WFALSE
        /\ res.kind = "Ok" <=> Matches # {}

\* the second entry matches: one first, one next after it, and no request after the match
C17_Witness ==
    /\ res.op = "find" /\ res.kind = "Ok"
    /\ First(Matches) = 2
    /\ Cardinality(EnumCalls) = 2
    /\ calls[Len(calls) - 1].fn = "OpenProcess"

\* The entries of the enumerated list whose name field does not decode
Field(k) == IF res.op = "find" THEN procs[k].szExeFile ELSE mods[k].szModule
Undecodable == {k \in 1..Listed : ~remove_nil_bytes(Field(k)).ok}
FoundEntry(k) ==
    IF res.op = "find"
    THEN res.proc.pid = procs[k].th32ProcessID /\ res.proc.name = remove_nil_bytes(Field(k)).s
    ELSE res.module.name = remove_nil_bytes(Field(k)).s

\* C18: in find and find_module an entry whose name does not decode is a non-match and is
\* skipped: the next entry is requested after it, a matching entry after it is still
\* found, and with no matching entry the result is the not-found error and no other.
C18_UndecodableEntrySkipped ==
    (res.op \in {"find", "find_module"} /\ IsValidHandle(SnapshotHandle) /\ Undecodable # {}) =>
        /\ Undecodable \cap Matches = {}
        /\ \A k \in Undecodable : k < Requested => calls[k + 2].fn = NextFn
        /\ IF Matches # {}
           THEN res.kind = "Ok" /\ FoundEntry(First(Matches))
           ELSE res.kind = "Err" /\ res.err = NotFoundError

\* the entry found comes after one whose name does not decode
C18_Witness ==
    /\ res.op = "find" /\ res.kind = "Ok"
    /\ 1 \in Undecodable
    /\ FoundEntry(2)

\* C19: for every DWORD module base b and every DWORD offset a, read_mem_relative and
\* write_mem_relative transfer at exactly b + a: the sum neither wraps nor aborts the call.
C19_SumNeverWrapsOrAborts ==
    (res.op \in RelOps /\ ~LookupFailed) =>
        /\ res.kind # "Panic"
        /\ Transfers # {}
        /\ \A k \in Transfers : calls[k].arg = CurrentBase + res.addr

====
